---- MODULE Spec2Model ----
(***************************************************************************)
(* Model of the portfolio single-page application: the route switch        *)
(* (App), the main layout (Portfolio) with its active-section tracker and  *)
(* theme state, the navigation bar (Navbar) and the gallery page (Blog)    *)
(* with its lightbox.  One document (browser tab) is modelled; a page      *)
(* load resets every component state.                                      *)
(***************************************************************************)
EXTENDS Integers, Sequences, FiniteSets, TLC

(***************************************************************************)
(* Bounds of the model.                                                    *)
(***************************************************************************)
\* largest number of registered sections whose element is absent from the DOM
MaxMissing == 1
\* largest number of entries one observer callback delivers in one batch
MaxBatch == 2
\* largest delay passed to fadeUp, in hundredths of a second
MaxDelay == 10

(***************************************************************************)
(* Static data of the program.                                             *)
(***************************************************************************)
\* App.jsx: const SECTIONS
SECTIONS == <<"about", "cp-life", "projects", "skills", "experience", "resume", "connect">>

SectionSet == {SECTIONS[i] : i \in DOMAIN SECTIONS}

\* variant: the second control carries its label as identifier
MutNAV_LINKS == <<
  [label |-> "about",       id |-> "about",       external |-> ""],
  [label |-> "programming", id |-> "programming", external |-> ""],
  [label |-> "projects",    id |-> "projects",    external |-> ""],
  [label |-> "skills",      id |-> "skills",      external |-> ""],
  [label |-> "experience",  id |-> "experience",  external |-> ""],
  [label |-> "resume",      id |-> "resume",      external |-> ""],
  [label |-> "blog",        id |-> "blog",        external |-> "/blog"],
  [label |-> "connect",     id |-> "connect",     external |-> ""] >>

\* Navbar.jsx: const NAV_LINKS; external = "" stands for the absent (falsy) field
NAV_LINKS == <<
  [label |-> "about",       id |-> "about",      external |-> ""],
  [label |-> "programming", id |-> "cp-life",    external |-> ""],
  [label |-> "projects",    id |-> "projects",   external |-> ""],
  [label |-> "skills",      id |-> "skills",     external |-> ""],
  [label |-> "experience",  id |-> "experience", external |-> ""],
  [label |-> "resume",      id |-> "resume",     external |-> ""],
  [label |-> "blog",        id |-> "blog",       external |-> "/blog"],
  [label |-> "connect",     id |-> "connect",    external |-> ""] >>

\* Navbar.jsx: the two lists of controls rendered from NAV_LINKS
NavLists == {"desktop", "mobile"}

\* Navbar.jsx: window.scrollY > 20
ScrollThreshold == 20

\* scroll offsets the scroll source reports (around the threshold)
ScrollOffsets == {0, ScrollThreshold, ScrollThreshold + 1}

\* Blog.jsx: const GALLERY_CATEGORIES (id, label and the image URLs)
GALLERY_CATEGORIES == <<
  [id |-> "football", label |-> "Football", images |-> <<
     "https://images.unsplash.com/photo-1579952363873-27f3bade9f55?w=600&q=80",
     "https://images.unsplash.com/photo-1517927033932-b3d18e61fb3a?w=600&q=80",
     "https://images.unsplash.com/photo-1624880357913-a8539238245b?w=600&q=80" >>],
  [id |-> "chess", label |-> "Chess", images |-> <<
     "https://images.unsplash.com/photo-1529699211952-734e80c4d42b?w=600&q=80",
     "https://images.unsplash.com/photo-1586165368502-1bad197a6461?w=600&q=80",
     "https://images.unsplash.com/photo-1580541631950-7282082b53ce?w=600&q=80" >>],
  [id |-> "marathon", label |-> "Marathon Running", images |-> <<
     "https://images.unsplash.com/photo-1502904550040-7534597429ae?w=600&q=80",
     "https://images.unsplash.com/photo-1571008887538-b36bb32f4571?w=600&q=80",
     "https://images.unsplash.com/photo-1461897104016-0b3b00cc81ee?w=600&q=80" >>],
  [id |-> "hiking", label |-> "Hiking", images |-> <<
     "https://images.unsplash.com/photo-1551632811-561732d1e306?w=600&q=80",
     "https://images.unsplash.com/photo-1527004013197-933c4bb611b3?w=600&q=80",
     "https://images.unsplash.com/photo-1464822759023-fed622ff2c3b?w=600&q=80" >>] >>

(***************************************************************************)
(* Paths and the route switch.  A path is the sequence of the segments of  *)
(* location.pathname after its leading "/": "/" is <<"">>, "/blog" is      *)
(* <<"blog">>, "/blog/" is <<"blog", "">>.                                 *)
(***************************************************************************)
TestPaths == { <<"">>, <<"blog">>, <<"blog", "">>, <<"Blog">>,
               <<"portfolio", "">>, <<"portfolio", "blog">>, <<"gallery">> }

\* case folding of a path segment (route matching is case-insensitive)
Lower(s) == CASE s = "Blog" -> "blog"
              [] s = "BLOG" -> "blog"
              [] OTHER      -> s

\* trailing slashes carry no segment: drop the empty segments at the end
RECURSIVE StripTrailing(_)
StripTrailing(p) ==
  IF p = <<>> THEN <<>>
  ELSE IF p[Len(p)] = "" THEN StripTrailing(SubSeq(p, 1, Len(p) - 1))
  ELSE p

\* <Route path=...> against the whole pathname: same segments, case folded
MatchPath(pattern, p) ==
  LET a == StripTrailing(pattern)
      b == StripTrailing(p)
  IN  /\ Len(a) = Len(b)
      /\ \A i \in DOMAIN a : Lower(a[i]) = Lower(b[i])

\* variant: the main layout is the catch-all of the route switch
MutRouteSwitch(p) ==
  IF MatchPath(<<"blog">>, p) THEN "Blog" ELSE "Portfolio"

\* App: <Routes> with the two routes "/" and "/blog", no catch-all route
RouteSwitch(p) ==
  IF MatchPath(<<"">>, p) THEN "Portfolio"
  ELSE IF MatchPath(<<"blog">>, p) THEN "Blog"
  ELSE "none"

\* the segments of a string of path segments separated by "/"
RECURSIVE SplitPath(_, _)
SplitPath(str, cur) ==
  IF str = "" THEN <<cur>>
  ELSE IF Head(str) = "/" THEN <<cur>> \o SplitPath(Tail(str), "")
  ELSE SplitPath(Tail(str), cur \o Head(str))

\* vite.config.js: base: '/portfolio/' (where the build expects to be served)
ViteBase == <<"portfolio", "">>

\* variant: the target is resolved below the base the build is served from
MutResolveUrl(url, cur) ==
  SubSeq(ViteBase, 1, Len(ViteBase) - 1) \o SplitPath(Tail(url), "")

\* window.open(url): the pathname the URL resolves to from a document at
\* path cur: a leading "/" starts at the origin, anything else replaces the
\* last segment of cur
ResolveUrl(url, cur) ==
  IF Head(url) = "/" THEN SplitPath(Tail(url), "")
  ELSE SubSeq(cur, 1, Len(cur) - 1) \o SplitPath(url, "")

(***************************************************************************)
(* Portfolio: initial values of the two pieces of state.                   *)
(***************************************************************************)
\* variant: the default names an identifier that is not a section
MutInitialActiveSection == "home"

\* useState('about')
InitialActiveSection == "about"

\* variant: the layout starts in the light theme
MutInitialDarkMode == FALSE

\* useState(true)
InitialDarkMode == TRUE

\* variant: classList.toggle('dark') without the force argument
MutClassListToggle(present, force) == ~present

\* classList.toggle('dark', force): the class is present iff force
ClassListToggle(present, force) == force

\* variant: the first identifier without element ends the whole loop
RECURSIVE MutAttachObservers(_, _)
MutAttachObservers(ids, dom) ==
  IF ids = <<>> THEN <<>>
  ELSE IF Head(ids) \notin dom THEN <<>>
  ELSE <<Head(ids)>> \o MutAttachObservers(Tail(ids), dom)

\* SECTIONS.forEach: one observer per identifier whose element is in the DOM
RECURSIVE AttachObservers(_, _)
AttachObservers(ids, dom) ==
  IF ids = <<>> THEN <<>>
  ELSE IF Head(ids) \notin dom THEN AttachObservers(Tail(ids), dom)
  ELSE <<Head(ids)>> \o AttachObservers(Tail(ids), dom)

\* variant: disconnect() leaves the observer connected
MutRemoveOne(reg, o) == reg

\* o.disconnect(): the observer leaves the registry of connected observers
RECURSIVE RemoveOne(_, _)
RemoveOne(reg, o) ==
  IF reg = <<>> THEN <<>>
  ELSE IF Head(reg) = o THEN Tail(reg)
  ELSE <<Head(reg)>> \o RemoveOne(Tail(reg), o)

\* variant: the cleanup disconnects the first observer only
MutDisconnectAll(obs, reg) ==
  IF obs = <<>> THEN reg ELSE RemoveOne(reg, Head(obs))

\* effect cleanup: observers.forEach((o) => o.disconnect())
RECURSIVE DisconnectAll(_, _)
DisconnectAll(obs, reg) ==
  IF obs = <<>> THEN reg
  ELSE DisconnectAll(Tail(obs), RemoveOne(reg, Head(obs)))

\* position of a section in SECTIONS (its place on the page, top to bottom)
SectionIndex(id) == CHOOSE i \in DOMAIN SECTIONS : SECTIONS[i] = id

\* variant: of two sections the one lower on the page stays the active one
MutSetActiveSection(cur, id) ==
  IF SectionIndex(cur) > SectionIndex(id) THEN cur ELSE id

\* setActiveSection(id): the state becomes the value passed, whatever it was
SetActiveSection(cur, id) == id

\* variant: the newest entry of the batch is the one consulted
MutDecidingEntry(entries) == entries[Len(entries)]

\* ([entry]) => ...: the destructuring binds the first entry of the batch
DecidingEntry(entries) == entries[1]

\* variant: the callback ignores entry.isIntersecting
MutCallbackResult(id, entries, cur) == id

\* observer callback: ([entry]) => { if (entry.isIntersecting) setActiveSection(id) }
CallbackResult(id, entries, cur) ==
  IF DecidingEntry(entries) THEN SetActiveSection(cur, id) ELSE cur

\* batches of entries (isIntersecting flags) an observer can deliver
Batches == UNION {[1..n -> BOOLEAN] : n \in 1..MaxBatch}

(***************************************************************************)
(* Navbar helpers.                                                         *)
(***************************************************************************)
NoEffect == [kind |-> "none", arg |-> "", opt |-> ""]

\* onClick: external ? window.open(...) : scrollTo(id)
IsExternal(link) == link.external # ""

\* variant: the target opens in the same viewing context
MutOpenEffect(link) == [kind |-> "open", arg |-> link.external, opt |-> "_self"]

\* window.open(external, '_blank')
OpenEffect(link) == [kind |-> "open", arg |-> link.external, opt |-> "_blank"]

\* scrollTo: document.getElementById(id)?.scrollIntoView({ behavior: 'smooth' })
ScrollToEffect(id, dom) ==
  IF id \in dom THEN [kind |-> "scrollIntoView", arg |-> id, opt |-> "smooth"]
  ELSE NoEffect

\* variant: getElementById(id).scrollIntoView throws on a missing element
MutScrollToMenu(id, dom, open) == IF id \in dom THEN FALSE ELSE open

\* scrollTo: setMenuOpen(false), reached whether or not the element exists
ScrollToMenu(id, dom, open) == FALSE

\* window.addEventListener('scroll', handler) with the handler of this run
AddListener(n) == n + 1

\* variant: the cleanup passes a function that was never registered
MutRemoveListener(n) == n

\* window.removeEventListener('scroll', handler) with that same handler
RemoveListener(n) == IF n > 0 THEN n - 1 ELSE 0

\* variant: the flag starts from the offset the document is at
MutInitialScrolled(y) == y > 20

\* useState(false): the offset at mount is not looked at
InitialScrolled(y) == FALSE

\* variant: the glass background already starts at the threshold itself
MutScrolledFor(y) == y >= ScrollThreshold

\* scroll handler: setScrolled(window.scrollY > 20)
ScrolledFor(y) == y > ScrollThreshold

\* variant: the control is compared by its label
MutIsHighlighted(link, active) == active = link.label

\* accent colour (and underline): activeSection === id
IsHighlighted(link, active) == active = link.id

\* the lists in the DOM: the desktop <ul> always, the drawer {menuOpen && ...}
RenderedLists(open) == IF open THEN {"desktop", "mobile"} ELSE {"desktop"}

\* NAV_LINKS.map in a list: the positions of the controls drawn as active
Highlighted(list, active) ==
  {k \in DOMAIN NAV_LINKS : IsHighlighted(NAV_LINKS[k], active)}

(***************************************************************************)
(* Blog helpers.                                                           *)
(***************************************************************************)
\* useState(null)
NoSelection == [src |-> "", alt |-> ""]

\* variant: the alt text numbers the photos from 0
MutAltText(label, idx) == label \o " photo " \o ToString(idx)

\* `${category.label} photo ${idx + 1}` for the 0-based index idx
AltText(label, idx) == label \o " photo " \o ToString(idx + 1)

\* handleImageClick: (src, alt) => setLightbox({ src, alt })
HandleImageClick(src, alt) == [src |-> src, alt |-> alt]

\* variant: the overlay is rendered unconditionally
MutRenderOverlays(lb) == <<lb>>

\* {lightbox && <Lightbox .../>}: the overlays the render mounts
RenderOverlays(lb) == IF lb = NoSelection THEN <<>> ELSE <<lb>>

(***************************************************************************)
(* Animation preset (utils/animations.js).  Times are in hundredths of a   *)
(* second: 0.6 s is 60.  An argument is [given, value]: given = FALSE is   *)
(* the call fadeUp() without argument.                                     *)
(***************************************************************************)
\* the arguments fadeUp is called with
FadeArgs ==
  {[given |-> TRUE, value |-> d] : d \in 0..MaxDelay} \cup {[given |-> FALSE, value |-> 0]}

\* (delay = 0): the default takes the place of an omitted argument
DelayParam(arg) == IF arg.given THEN arg.value ELSE 0

\* variant: the transition starts at once, whatever delay is passed
MutFadeUp(arg) ==
  [ initial     |-> [opacity |-> 0, y |-> 30],
    whileInView |-> [opacity |-> 1, y |-> 0],
    viewport    |-> [once |-> TRUE],
    transition  |-> [duration |-> 60, delay |-> 0, ease |-> "easeOut"] ]

\* variant: the copy kept the shorter rise of an earlier design
MutAboutFadeUp(arg) ==
  [ initial     |-> [opacity |-> 0, y |-> 20],
    whileInView |-> [opacity |-> 1, y |-> 0],
    viewport    |-> [once |-> TRUE],
    transition  |-> [duration |-> 60, delay |-> IF arg.given THEN arg.value ELSE 0,
                     ease |-> "easeOut"] ]

\* About: const fadeUp = (delay = 0) => ({ ... }), the local copy
AboutFadeUp(arg) ==
  [ initial     |-> [opacity |-> 0, y |-> 30],
    whileInView |-> [opacity |-> 1, y |-> 0],
    viewport    |-> [once |-> TRUE],
    transition  |-> [duration |-> 60, delay |-> IF arg.given THEN arg.value ELSE 0,
                     ease |-> "easeOut"] ]

\* export const fadeUp = (delay = 0) => ({ initial, whileInView, viewport, transition })
FadeUp(arg) ==
  [ initial     |-> [opacity |-> 0, y |-> 30],
    whileInView |-> [opacity |-> 1, y |-> 0],
    viewport    |-> [once |-> TRUE],
    transition  |-> [duration |-> 60, delay |-> DelayParam(arg), ease |-> "easeOut"] ]

(***************************************************************************)
(* State.                                                                  *)
(***************************************************************************)
VARIABLES
  path,            \* location.pathname of the document, as segments
  page,            \* what the route switch renders: "Portfolio", "Blog", "none"
  rendered,        \* identifiers of the <section id=...> elements in the DOM
  mounted,         \* the effects of Portfolio and Navbar are set up
  activeSection,   \* Portfolio: useState('about')
  darkMode,        \* Portfolio: useState(true)
  rootDark,        \* document.documentElement has the class 'dark'
  scrolled,        \* Navbar: useState(false)
  menuOpen,        \* Navbar: useState(false)
  scrollY,         \* window.scrollY
  scrollListeners, \* number of 'scroll' listeners registered on window
  observers,       \* Portfolio effect: the local array `observers`
  live,            \* connected IntersectionObservers, by observed section
  lightbox,        \* Blog: useState(null)
  overlays,        \* Blog: the <Lightbox> elements mounted by the last render
  effect,          \* DOM call made by the last handler (scrollIntoView, window.open)
  lastOp,          \* history: the last operation and its arguments
  themeLog,        \* history: darkMode before the last (two) toggles in a row
  lastEntered,     \* history: section of the last single-entry intersecting callback
  showMore,        \* Projects: useState(false)
  storage,         \* keys held by the browser's storage for the site (survives a load)
  fadeArgs,        \* history: arguments of the last (two) calls of fadeUp
  fadeOut,         \* history: the objects these calls returned
  fadeBy           \* history: which fadeUp each call went to, "utils" or "about"

vars == <<path, page, rendered, mounted, activeSection, darkMode, rootDark,
          scrolled, menuOpen, scrollY, scrollListeners, observers, live,
          lightbox, overlays, effect, lastOp, themeLog, lastEntered,
          showMore, storage, fadeArgs, fadeOut, fadeBy>>

portfolioVars == <<mounted, activeSection, darkMode, rootDark, scrolled, menuOpen,
                   scrollY, scrollListeners, observers, live, themeLog, lastEntered,
                   showMore>>

blogVars == <<lightbox, overlays>>

\* what no handler of the layout, the navbar or the gallery touches
restVars == <<storage, fadeArgs, fadeOut, fadeBy>>

Op(name, id, list, n, hit) ==
  [op |-> name, id |-> id, list |-> list, n |-> n, hit |-> hit, rest |-> <<>>]

Range(s) == {s[i] : i \in DOMAIN s}

\* sections whose element may be absent: the first, a middle and the last one
MissingCandidates == {SECTIONS[1], SECTIONS[4], SECTIONS[Len(SECTIONS)]}

\* DOMs the layout can be mounted on: at most MaxMissing sections without element
RenderedChoices ==
  {SectionSet \ m : m \in {x \in SUBSET MissingCandidates : Cardinality(x) <= MaxMissing}}

(***************************************************************************)
(* Page load: createRoot(...).render(<App/>) on a fresh document.  The     *)
(* route switch picks the page; Portfolio and Navbar run their effects.    *)
(***************************************************************************)
\* scroll offsets a fresh document can start at (scroll restoration on reload)
StartOffsets(p) == IF RouteSwitch(p) = "Portfolio" THEN ScrollOffsets ELSE {0}

Fresh(p, sy, dom) ==
  LET pg  == RouteSwitch(p)
      on  == pg = "Portfolio"
      obs == IF on THEN AttachObservers(SECTIONS, dom) ELSE <<>>
  IN  [ page            |-> pg,
        mounted         |-> on,
        activeSection   |-> InitialActiveSection,
        darkMode        |-> InitialDarkMode,
        rootDark        |-> IF on THEN ClassListToggle(FALSE, InitialDarkMode) ELSE FALSE,
        scrolled        |-> InitialScrolled(sy),
        menuOpen        |-> FALSE,
        scrollY         |-> sy,
        scrollListeners |-> IF on THEN AddListener(0) ELSE 0,
        observers       |-> obs,
        live            |-> obs,
        showMore        |-> FALSE,
        lightbox        |-> NoSelection,
        overlays        |-> RenderOverlays(NoSelection) ]

Init ==
  /\ path \in TestPaths
  /\ rendered \in RenderedChoices
  /\ \E sy \in StartOffsets(path) :
       LET f == Fresh(path, sy, rendered)
       IN  /\ page = f.page
           /\ mounted = f.mounted
           /\ activeSection = f.activeSection
           /\ darkMode = f.darkMode
           /\ rootDark = f.rootDark
           /\ scrolled = f.scrolled
           /\ menuOpen = f.menuOpen
           /\ scrollY = f.scrollY
           /\ scrollListeners = f.scrollListeners
           /\ observers = f.observers
           /\ live = f.live
           /\ lightbox = f.lightbox
           /\ overlays = f.overlays
           /\ showMore = f.showMore
  /\ effect = NoEffect
  /\ lastOp = Op("load", "", "", 0, FALSE)
  /\ themeLog = <<>>
  /\ lastEntered = "none"
  /\ storage = {}
  /\ fadeArgs = <<>>
  /\ fadeOut = <<>>
  /\ fadeBy = <<>>

LoadTo(p, sy, name) ==
  LET f == Fresh(p, sy, rendered)
  IN  /\ path' = p
      /\ page' = f.page
      /\ mounted' = f.mounted
      /\ activeSection' = f.activeSection
      /\ darkMode' = f.darkMode
      /\ rootDark' = f.rootDark
      /\ scrolled' = f.scrolled
      /\ menuOpen' = f.menuOpen
      /\ scrollY' = f.scrollY
      /\ scrollListeners' = f.scrollListeners
      /\ observers' = f.observers
      /\ live' = f.live
      /\ lightbox' = f.lightbox
      /\ overlays' = f.overlays
      /\ showMore' = f.showMore
      /\ effect' = NoEffect
      /\ lastOp' = Op(name, IF page = "Portfolio" THEN activeSection ELSE "", "", 0,
                      page = "Portfolio" /\ ~darkMode)
      /\ themeLog' = <<>>
      /\ lastEntered' = "none"
      /\ UNCHANGED <<rendered, restVars>>

\* the user opens or reloads a URL of the site in this tab
Load(p) == \E sy \in StartOffsets(p) : LoadTo(p, sy, "load")

(***************************************************************************)
(* Portfolio: effects.                                                     *)
(***************************************************************************)
\* cleanup of the effects (StrictMode's simulated unmount, or a real unmount)
EffectsCleanup ==
  /\ page = "Portfolio"
  /\ mounted
  /\ mounted' = FALSE
  /\ live' = DisconnectAll(observers, live)
  /\ observers' = <<>>
  /\ scrollListeners' = RemoveListener(scrollListeners)
  /\ effect' = NoEffect
  /\ themeLog' = <<>>
  /\ lastOp' = Op("cleanup", "", "", 0, FALSE)
  /\ UNCHANGED <<path, page, rendered, activeSection, darkMode, rootDark, scrolled,
                 menuOpen, scrollY, lastEntered,
                 blogVars, showMore, restVars>>

\* the effects run again on the same component state (StrictMode's remount)
EffectsMount ==
  /\ page = "Portfolio"
  /\ ~mounted
  /\ mounted' = TRUE
  /\ scrollListeners' = AddListener(scrollListeners)
  /\ rootDark' = ClassListToggle(rootDark, darkMode)
  /\ observers' = AttachObservers(SECTIONS, rendered)
  /\ live' = live \o observers'
  /\ effect' = NoEffect
  /\ themeLog' = <<>>
  /\ lastOp' = Op("mount", "", "", 0, FALSE)
  /\ UNCHANGED <<path, page, rendered, activeSection, darkMode, scrolled,
                 menuOpen, scrollY, lastEntered,
                 blogVars, showMore, restVars>>

\* a connected observer of section id delivers a batch of entries
ObserverCallback(id, entries) ==
  /\ page = "Portfolio"
  /\ id \in Range(live)
  /\ activeSection' = CallbackResult(id, entries, activeSection)
  /\ lastEntered' = IF Len(entries) > 1 THEN "none"
                    ELSE IF entries[1] THEN id ELSE lastEntered
  /\ effect' = NoEffect
  /\ themeLog' = <<>>
  /\ lastOp' = [Op("callback", id,
                     IF lastOp.op = "callback" /\ lastOp.hit /\ lastOp.id # id /\ entries[1]
                       THEN "after" ELSE "",
                     Len(entries), entries[1])
                  EXCEPT !.rest = Tail(entries)]
  /\ UNCHANGED <<path, page, rendered, mounted, darkMode, rootDark, scrolled, menuOpen,
                 scrollY, scrollListeners, observers, live, blogVars,
                 showMore, restVars>>

(***************************************************************************)
(* Navbar: handlers.                                                       *)
(***************************************************************************)
\* variant: the external control closes the drawer as the other controls do
MutNavClick(list, k) ==
  LET link == NAV_LINKS[k]
  IN  /\ page = "Portfolio"
      /\ mounted
      /\ list = "mobile" => menuOpen
      /\ effect' = IF IsExternal(link) THEN OpenEffect(link)
                    ELSE ScrollToEffect(link.id, rendered)
      /\ menuOpen' = ScrollToMenu(link.id, rendered, menuOpen)
      /\ themeLog' = <<>>
      /\ lastOp' = Op("navClick", link.id, list, k, link.external # "")
      /\ UNCHANGED <<path, page, rendered, mounted, activeSection, darkMode, rootDark,
                     scrolled, scrollY, scrollListeners, observers, live, lastEntered,
                     blogVars, showMore, restVars>>

\* onClick of control k of a list: external ? window.open(external, '_blank') : scrollTo(id)
NavClick(list, k) ==
  LET link == NAV_LINKS[k]
  IN  /\ page = "Portfolio"
      /\ mounted
      /\ list = "mobile" => menuOpen
      /\ IF IsExternal(link)
           THEN /\ effect' = OpenEffect(link)
                /\ menuOpen' = menuOpen
           ELSE /\ effect' = ScrollToEffect(link.id, rendered)
                /\ menuOpen' = ScrollToMenu(link.id, rendered, menuOpen)
      /\ themeLog' = <<>>
      /\ lastOp' = Op("navClick", link.id, list, k, link.external # "")
      /\ UNCHANGED <<path, page, rendered, mounted, activeSection, darkMode, rootDark,
                     scrolled, scrollY, scrollListeners, observers, live, lastEntered,
                     blogVars, showMore, restVars>>

\* variant: the logo also writes 'about' into activeSection
MutLogoClick ==
  /\ page = "Portfolio"
  /\ mounted
  /\ effect' = ScrollToEffect("about", rendered)
  /\ menuOpen' = ScrollToMenu("about", rendered, menuOpen)
  /\ activeSection' = "about"
  /\ themeLog' = <<>>
  /\ lastOp' = Op("logo", "about", "", 0, FALSE)
  /\ UNCHANGED <<path, page, rendered, mounted, darkMode, rootDark,
                 scrolled, scrollY, scrollListeners, observers, live, lastEntered,
                 blogVars, showMore, restVars>>

\* logo button: onClick={() => scrollTo('about')}
LogoClick ==
  /\ page = "Portfolio"
  /\ mounted
  /\ effect' = ScrollToEffect("about", rendered)
  /\ menuOpen' = ScrollToMenu("about", rendered, menuOpen)
  /\ themeLog' = <<>>
  /\ lastOp' = Op("logo", "about", "", 0, FALSE)
  /\ UNCHANGED <<path, page, rendered, mounted, activeSection, darkMode, rootDark,
                 scrolled, scrollY, scrollListeners, observers, live, lastEntered,
                 blogVars, showMore, restVars>>

\* setDarkMode(p => !p)
Toggled(p) == ~p

\* theme button: setDarkMode(p => !p), then the darkMode effect runs
ToggleTheme ==
  /\ page = "Portfolio"
  /\ mounted
  /\ darkMode' = Toggled(darkMode)
  /\ rootDark' = ClassListToggle(rootDark, darkMode')
  /\ themeLog' = IF Len(themeLog) < 2 THEN Append(themeLog, darkMode)
                 ELSE <<themeLog[2], darkMode>>
  /\ effect' = NoEffect
  /\ lastOp' = Op("theme", "", "", 0, FALSE)
  /\ UNCHANGED <<path, page, rendered, mounted, activeSection, scrolled, menuOpen,
                 scrollY, scrollListeners, observers, live, lastEntered,
                 blogVars, showMore, restVars>>

\* hamburger button: setMenuOpen(p => !p)
ToggleMenu ==
  /\ page = "Portfolio"
  /\ mounted
  /\ menuOpen' = ~menuOpen
  /\ effect' = NoEffect
  /\ themeLog' = <<>>
  /\ lastOp' = Op("menu", "", "", 0, FALSE)
  /\ UNCHANGED <<path, page, rendered, mounted, activeSection, darkMode, rootDark,
                 scrolled, scrollY, scrollListeners, observers, live, lastEntered,
                 blogVars, showMore, restVars>>

\* the window scrolls to offset y; a registered handler runs setScrolled(scrollY > 20)
Scroll(y) ==
  /\ page = "Portfolio"
  /\ scrollY' = y
  /\ scrolled' = IF scrollListeners > 0 THEN ScrolledFor(y) ELSE scrolled
  /\ effect' = NoEffect
  /\ themeLog' = <<>>
  /\ lastOp' = Op("scroll", "", "", 0, FALSE)
  /\ UNCHANGED <<path, page, rendered, mounted, activeSection, darkMode, rootDark,
                 menuOpen, scrollListeners, observers, live, lastEntered,
                 blogVars, showMore, restVars>>

(***************************************************************************)
(* Blog: handlers.                                                         *)
(***************************************************************************)
\* handleClose: () => setLightbox(null)
HandleClose == NoSelection

\* onClick of thumbnail idx (0-based) of category c
ThumbClick(c, idx) ==
  LET category == GALLERY_CATEGORIES[c]
      src      == category.images[idx + 1]
  IN  /\ page = "Blog"
      /\ lightbox' = HandleImageClick(src, AltText(category.label, idx))
      /\ overlays' = RenderOverlays(lightbox')
      /\ effect' = NoEffect
      /\ lastOp' = Op("thumb", category.id, "", idx, overlays # <<>>)
      /\ UNCHANGED <<path, page, rendered, portfolioVars, restVars>>

\* Lightbox: the elements a click on target passes through, innermost first
LightboxPath(target) ==
  CASE target = "backdrop" -> <<"backdrop">>
    [] target = "image"    -> <<"image", "wrapper", "backdrop">>
    [] target = "close"    -> <<"close", "wrapper", "backdrop">>

\* variant: the wrapper has no click handler
MutLightboxHandler(el) ==
  CASE el = "backdrop" -> "onClose"
    [] el = "wrapper"  -> "none"
    [] el = "close"    -> "onClose"
    [] el = "image"    -> "none"

\* Lightbox: the onClick of each element
LightboxHandler(el) ==
  CASE el = "backdrop" -> "onClose"
    [] el = "wrapper"  -> "stopPropagation"
    [] el = "close"    -> "onClose"
    [] el = "image"    -> "none"

\* bubbling of one click along a path: how many times onClose is invoked
RECURSIVE CloseCalls(_)
CloseCalls(els) ==
  IF els = <<>> THEN 0
  ELSE LET h == LightboxHandler(Head(els))
       IN  IF h = "stopPropagation" THEN 0
           ELSE (IF h = "onClose" THEN 1 ELSE 0) + CloseCalls(Tail(els))

\* the selection after onClose ran calls times on it
AfterCloses(calls, lb) == IF calls > 0 THEN HandleClose ELSE lb

\* click on the backdrop of the mounted overlay: onClick={onClose}
BackdropClick ==
  /\ page = "Blog"
  /\ overlays # <<>>
  /\ lightbox' = AfterCloses(CloseCalls(LightboxPath("backdrop")), lightbox)
  /\ overlays' = RenderOverlays(lightbox')
  /\ effect' = NoEffect
  /\ lastOp' = Op("backdrop", "", "", CloseCalls(LightboxPath("backdrop")), FALSE)
  /\ UNCHANGED <<path, page, rendered, portfolioVars, restVars>>

\* click on the close button: onClick={onClose}; the wrapper stops the propagation
CloseClick ==
  /\ page = "Blog"
  /\ overlays # <<>>
  /\ lightbox' = AfterCloses(CloseCalls(LightboxPath("close")), lightbox)
  /\ overlays' = RenderOverlays(lightbox')
  /\ effect' = NoEffect
  /\ lastOp' = Op("close", "", "", CloseCalls(LightboxPath("close")), FALSE)
  /\ UNCHANGED <<path, page, rendered, portfolioVars, restVars>>

\* click on the enlarged image: the wrapper's e.stopPropagation(), no handler of Blog runs
ImageClick ==
  /\ page = "Blog"
  /\ overlays # <<>>
  /\ lightbox' = AfterCloses(CloseCalls(LightboxPath("image")), lightbox)
  /\ overlays' = RenderOverlays(lightbox')
  /\ effect' = NoEffect
  /\ lastOp' = Op("image", "", "", CloseCalls(LightboxPath("image")), FALSE)
  /\ UNCHANGED <<path, page, rendered, portfolioVars, restVars>>

\* <a href="/">: a full page load of the root path
BackLink ==
  /\ page = "Blog"
  /\ \E sy \in ScrollOffsets : LoadTo(<<"">>, sy, "backLink")

(***************************************************************************)
(* Content sections: Projects' "Show More" state, the images and the       *)
(* outbound links of the sections.                                         *)
(***************************************************************************)
\* Projects.jsx: const PROJECTS_HIDDEN (ids)
PROJECTS_HIDDEN == <<"sell-it">>

\* Projects.jsx: const PROJECTS_VISIBLE (ids)
PROJECTS_VISIBLE == <<"chess", "thesis">>

\* variant: the hidden cards are rendered unconditionally
MutProjectCards(sm) == PROJECTS_VISIBLE \o PROJECTS_HIDDEN

\* the cards Projects renders: PROJECTS_VISIBLE.map, then {showMore && PROJECTS_HIDDEN.map}
ProjectCards(sm) == PROJECTS_VISIBLE \o (IF sm THEN PROJECTS_HIDDEN ELSE <<>>)

\* variant: the button only ever reveals the hidden projects
MutToggledShowMore(p) == TRUE

\* setShowMore(prev => !prev)
ToggledShowMore(p) == ~p

\* "Show More" / "Show Less" button of Projects, rendered when PROJECTS_HIDDEN is not empty
ToggleShowMore ==
  /\ page = "Portfolio"
  /\ mounted
  /\ Len(PROJECTS_HIDDEN) > 0
  /\ showMore' = ToggledShowMore(showMore)
  /\ effect' = NoEffect
  /\ themeLog' = <<>>
  /\ lastOp' = [Op("showMore", "projects", "", 0, FALSE)
                  EXCEPT !.rest = IF lastOp.op = "showMore"
                                    THEN <<lastOp.rest[Len(lastOp.rest)], showMore>>
                                    ELSE <<showMore>>]
  /\ UNCHANGED <<path, page, rendered, mounted, activeSection, darkMode, rootDark,
                 scrolled, menuOpen, scrollY, scrollListeners, observers, live,
                 lastEntered, blogVars, restVars>>

\* the <img> elements of the site, per file, with whether the element
\* carries an onError handler
\* CPLife.jsx: the platform logo (PlatformCard) and the contest logo (ContestBadge)
CPLIFE_IMAGES == <<
  [kind |-> "platformLogo",  page |-> "Portfolio", onError |-> TRUE],
  [kind |-> "contestLogo",   page |-> "Portfolio", onError |-> TRUE] >>

\* Skills.jsx: the logo of a skill card
SKILLS_IMAGES == <<
  [kind |-> "skillLogo",     page |-> "Portfolio", onError |-> TRUE] >>

\* About: the profile photo
ABOUT_IMAGES == <<
  [kind |-> "profilePhoto",  page |-> "Portfolio", onError |-> FALSE] >>

\* Blog.jsx: the thumbnails (CategorySection) and the enlarged image (Lightbox)
BLOG_IMAGES == <<
  [kind |-> "thumbnail",     page |-> "Blog",      onError |-> FALSE],
  [kind |-> "lightboxImage", page |-> "Blog",      onError |-> FALSE] >>

IMAGES == CPLIFE_IMAGES \o SKILLS_IMAGES \o ABOUT_IMAGES \o BLOG_IMAGES

\* onError={(e) => { e.currentTarget.style.display = 'none' }}, where there is one
OnErrorEffect(img) ==
  IF img.onError THEN [kind |-> "hide", arg |-> img.kind, opt |-> "display:none"]
  ELSE NoEffect

\* image k fails to load: the browser fires 'error' on the element
ImgError(k) ==
  LET img == IMAGES[k]
  IN  /\ page = img.page
      /\ img.page = "Portfolio" => mounted
      /\ img.kind = "lightboxImage" => overlays # <<>>
      /\ effect' = OnErrorEffect(img)
      /\ themeLog' = <<>>
      /\ lastOp' = Op("imgError", img.kind, "", k, img.onError)
      /\ UNCHANGED <<path, page, rendered, mounted, activeSection, darkMode, rootDark,
                     scrolled, menuOpen, scrollY, scrollListeners, observers, live,
                     lastEntered, showMore, blogVars, restVars>>

\* Resume.jsx: const SOCIALS (name, and the href split at its first ':')
SOCIALS == <<
  [name |-> "GitHub",    scheme |-> "https", rest |-> "//github.com/itz-tanvir"],
  [name |-> "LinkedIn",  scheme |-> "https", rest |-> "//www.linkedin.com/in/tanvir-muhammad-hasan-421ba9282/"],
  [name |-> "Gmail",     scheme |-> "https", rest |-> "//mail.google.com/mail/?view=cm&to=tanvirhasan.pe@gmail.com"],
  [name |-> "Instagram", scheme |-> "https", rest |-> "//www.instagram.com/t_anv_i_r/"],
  [name |-> "Facebook",  scheme |-> "https", rest |-> "//www.facebook.com/tanvir.hasan.401601"] >>

\* Connect: the direct-email <a>, its href and its (absent) target attribute
EMAIL_CTA == [name |-> "EmailCTA", scheme |-> "https",
              rest |-> "//mail.google.com/mail/?view=cm&to=tanvirhasan.pe@gmail.com",
              target |-> ""]

\* SocialButton: target={social.href.startsWith('mailto') ? '_self' : '_blank'}
SocialTarget(social) == IF social.scheme = "mailto" THEN "_self" ELSE "_blank"

\* an <a> without target attribute navigates its own browsing context
AnchorTarget(attr) == IF attr = "" THEN "_self" ELSE attr

\* the outbound links of Connect: the five social cards, then the email button
OutboundLinks ==
  [k \in 1..Len(SOCIALS) |->
     [name |-> SOCIALS[k].name, scheme |-> SOCIALS[k].scheme, rest |-> SOCIALS[k].rest,
      target |-> AnchorTarget(SocialTarget(SOCIALS[k]))]]
  \o << [name |-> EMAIL_CTA.name, scheme |-> EMAIL_CTA.scheme, rest |-> EMAIL_CTA.rest,
         target |-> AnchorTarget(EMAIL_CTA.target)] >>

\* the visitor activates outbound link k: the browser navigates the context
\* its target names to the href
LinkClick(k) ==
  LET link == OutboundLinks[k]
  IN  /\ page = "Portfolio"
      /\ mounted
      /\ effect' = [kind |-> "navigate", arg |-> link.scheme \o ":" \o link.rest,
                    opt |-> link.target]
      /\ themeLog' = <<>>
      /\ lastOp' = Op("link", link.name, "", k, FALSE)
      /\ UNCHANGED <<path, page, rendered, mounted, activeSection, darkMode, rootDark,
                     scrolled, menuOpen, scrollY, scrollListeners, observers, live,
                     lastEntered, showMore, blogVars, restVars>>

(***************************************************************************)
(* Specification.                                                          *)
(***************************************************************************)
Next ==
  \/ \E p \in TestPaths : Load(p)
  \/ EffectsCleanup
  \/ EffectsMount
  \/ \E id \in SectionSet, entries \in Batches : ObserverCallback(id, entries)
  \/ \E list \in NavLists, k \in DOMAIN NAV_LINKS : NavClick(list, k)
  \/ LogoClick
  \/ ToggleTheme
  \/ ToggleMenu
  \/ \E y \in ScrollOffsets : Scroll(y)
  \/ \E c \in DOMAIN GALLERY_CATEGORIES, idx \in 0..2 : ThumbClick(c, idx)
  \/ BackdropClick
  \/ CloseClick
  \/ ImageClick
  \/ BackLink

Spec == Init /\ [][Next]_vars

\* the page as Portfolio renders it: every section has its element
InitContent == Init /\ rendered = SectionSet

\* the whole site, the content sections included
NextContent ==
  \/ Next
  \/ ToggleShowMore
  \/ \E k \in DOMAIN IMAGES : ImgError(k)
  \/ \E k \in DOMAIN OutboundLinks : LinkClick(k)

SpecContent == InitContent /\ [][NextContent]_vars

\* a sequence that keeps the last two values appended to it
KeepTwo(seq, x) == IF Len(seq) < 2 THEN Append(seq, x) ELSE <<seq[2], x>>

\* About calls its local fadeUp(arg) while it renders
CallAboutFadeUp(arg) ==
  /\ fadeArgs' = KeepTwo(fadeArgs, arg)
  /\ fadeOut' = KeepTwo(fadeOut, AboutFadeUp(arg))
  /\ fadeBy' = KeepTwo(fadeBy, "about")
  /\ UNCHANGED <<path, page, rendered, portfolioVars, blogVars, effect, lastOp, storage>>

\* a component calls fadeUp(arg) while it renders; the last two calls are kept
CallFadeUp(arg) ==
  /\ fadeArgs' = IF Len(fadeArgs) < 2 THEN Append(fadeArgs, arg) ELSE <<fadeArgs[2], arg>>
  /\ fadeOut' = IF Len(fadeOut) < 2 THEN Append(fadeOut, FadeUp(arg))
                ELSE <<fadeOut[2], FadeUp(arg)>>
  /\ fadeBy' = KeepTwo(fadeBy, "utils")
  /\ UNCHANGED <<path, page, rendered, portfolioVars, blogVars, effect, lastOp, storage>>

\* the main layout just loaded, its sections rendering
InitAnim == Init /\ path = <<"">> /\ rendered = SectionSet /\ scrollY = 0

NextAnim ==
  \/ \E arg \in FadeArgs : CallFadeUp(arg)
  \/ \E arg \in FadeArgs : CallAboutFadeUp(arg)

SpecAnim == InitAnim /\ [][NextAnim]_vars

(***************************************************************************)
(* Properties.                                                             *)
(***************************************************************************)

\* C1: in every state of the main layout activeSection is one identifier of
\* the Section Registry SECTIONS (never undefined, never foreign).
C1_ActiveInRegistry ==
  page = "Portfolio" => activeSection \in SectionSet

C1_Witness ==
  /\ page = "Portfolio"
  /\ lastOp.op = "callback" /\ lastOp.hit
  /\ activeSection = "connect"
  /\ ~darkMode /\ menuOpen /\ scrolled

\* C2 as stated: after every single-entry callback of a section (its visible
\* fraction crossed the threshold, in either direction) activeSection is
\* that section.
C2_Original ==
  (page = "Portfolio" /\ lastOp.op = "callback" /\ lastOp.n = 1)
    => activeSection = lastOp.id

\* C2 amended: while callbacks deliver one entry at a time, activeSection is
\* the section that most recently crossed the threshold upwards (reported
\* isIntersecting); a section dropping below the threshold changes nothing.
C2_LastEntered ==
  (page = "Portfolio" /\ lastEntered # "none") => activeSection = lastEntered

C2_Witness ==
  /\ page = "Portfolio"
  /\ lastEntered = "projects"
  /\ lastOp.op = "callback" /\ lastOp.n = 1 /\ ~lastOp.hit
  /\ lastOp.id = "about"

\* C3: after the cleanup of the layout's effects no observer is connected,
\* and no observer callback runs while the layout is torn down.
C3_Released ==
  /\ [](~mounted => live = <<>>)
  /\ [][~mounted => lastOp'.op # "callback"]_vars

C3_Witness ==
  /\ page = "Portfolio"
  /\ ~mounted
  /\ lastOp.op = "cleanup"
  /\ rendered = SectionSet
  /\ activeSection = "skills"

\* C4: each toggle flips darkMode, two toggles in a row restore it, and
\* after mount and after every toggle the root has the class 'dark' iff
\* darkMode.
C4_ThemeRoundTrip ==
  page = "Portfolio" =>
    /\ rootDark <=> darkMode
    /\ themeLog # <<>> => darkMode = ~themeLog[Len(themeLog)]
    /\ Len(themeLog) = 2 => darkMode = themeLog[1]

C4_Witness ==
  /\ page = "Portfolio"
  /\ lastOp.op = "theme"
  /\ Len(themeLog) = 2
  /\ darkMode = InitialDarkMode /\ rootDark

\* the alt texts of the gallery, written out per category and position
ExpectedAlt ==
  [c \in {"football", "chess", "marathon", "hiking"} |->
     CASE c = "football" -> <<"Football photo 1", "Football photo 2", "Football photo 3">>
       [] c = "chess"    -> <<"Chess photo 1", "Chess photo 2", "Chess photo 3">>
       [] c = "marathon" -> <<"Marathon Running photo 1", "Marathon Running photo 2",
                              "Marathon Running photo 3">>
       [] c = "hiking"   -> <<"Hiking photo 1", "Hiking photo 2", "Hiking photo 3">>]

\* C5: the selection is none after the page load, {src, alt} of thumbnail i
\* after its activation (alt '<label> photo <i+1>'), and none again after a
\* dismissal by the backdrop or by the close control.
C5_Selection ==
  page = "Blog" =>
    /\ lastOp.op \in {"load", "backdrop", "close"} => lightbox = NoSelection
    /\ lastOp.op = "thumb" =>
         \E c \in DOMAIN GALLERY_CATEGORIES :
           /\ GALLERY_CATEGORIES[c].id = lastOp.id
           /\ lightbox = [src |-> GALLERY_CATEGORIES[c].images[lastOp.n + 1],
                          alt |-> ExpectedAlt[lastOp.id][lastOp.n + 1]]

C5_Witness ==
  /\ page = "Blog"
  /\ lastOp.op = "thumb" /\ lastOp.id = "marathon" /\ lastOp.n = 2
  /\ lightbox.alt = "Marathon Running photo 3"

\* C6: the overlay is mounted iff a selection is held, it shows that
\* selection, and never more than one overlay is mounted.
C6_OneOverlay ==
  /\ Len(overlays) <= 1
  /\ overlays # <<>> <=> lightbox # NoSelection
  /\ overlays # <<>> => overlays[1] = lightbox

C6_Witness ==
  /\ page = "Blog"
  /\ lastOp.op = "thumb" /\ lastOp.hit
  /\ Len(overlays) = 1
  /\ overlays[1].alt = "Chess photo 2"

\* paths written out: those of the gallery route and those of the root route
GalleryPaths == { <<"blog">>, <<"blog", "">>, <<"Blog">> }
RootPaths == { <<"">> }

\* C7 as stated: the gallery page is rendered iff the path is '/blog', and
\* every other path renders the main layout.
C7_Original ==
  /\ page = "Blog" <=> path = <<"blog">>
  /\ path # <<"blog">> => page = "Portfolio"

\* C7 amended: the gallery page is rendered iff the path matches the route
\* '/blog' (letter case and trailing slash ignored), the main layout iff the
\* path matches '/', and any other path renders neither page.
C7_RouteSwitch ==
  /\ page = "Blog" <=> path \in GalleryPaths
  /\ page = "Portfolio" <=> path \in RootPaths
  /\ path \notin GalleryPaths \cup RootPaths => page = "none"

C7_Witness ==
  /\ page = "none"
  /\ path = <<"portfolio", "">>
  /\ lastOp.op = "load"

\* C8: activating the external control, in either list, calls
\* window.open(target, '_blank') and leaves activeSection unchanged.
C8_ExternalNav ==
  [][(lastOp'.op = "navClick" /\ lastOp'.hit) =>
       /\ activeSection' = activeSection
       /\ effect' = [kind |-> "open", arg |-> "/blog", opt |-> "_blank"]]_vars

C8_Witness ==
  /\ lastOp.op = "navClick" /\ lastOp.hit /\ lastOp.list = "mobile"
  /\ effect.kind = "open"
  /\ activeSection = "resume"

\* C9: activating a control that is not external requests a smooth scroll to
\* the section's element (when there is one) and leaves menuOpen false,
\* whatever it was and whether or not the element exists.
C9_InternalNav ==
  (lastOp.op = "navClick" /\ ~lastOp.hit) =>
    /\ menuOpen = FALSE
    /\ lastOp.id \in rendered =>
         effect = [kind |-> "scrollIntoView", arg |-> lastOp.id, opt |-> "smooth"]
    /\ lastOp.id \notin rendered => effect.kind = "none"

C9_Witness ==
  /\ lastOp.op = "navClick" /\ ~lastOp.hit /\ lastOp.list = "mobile"
  /\ lastOp.id = "skills" /\ "skills" \notin rendered
  /\ ~menuOpen

\* C10: while mounted, exactly one observer is connected for each registered
\* identifier that has an element, and none for the others; a missing
\* element does not stop the attachment of the later ones.
C10_OneObserverEach ==
  (page = "Portfolio" /\ mounted) =>
    /\ Range(live) = SectionSet \cap rendered
    /\ Len(live) = Cardinality(SectionSet \cap rendered)
    /\ observers = live

C10_Witness ==
  /\ page = "Portfolio" /\ mounted
  /\ "about" \notin rendered
  /\ Len(live) = Len(SECTIONS) - 1
  /\ lastOp.op = "mount"

\* C11: activeSection is written only by the tracker's visibility callback
\* and darkMode only by the theme toggle (a page load constructs both anew);
\* a nav-control activation, a logo click, a scroll event, the hamburger
\* toggle and the Show More toggle leave both unchanged.
C11_Frame ==
  [][/\ lastOp'.op \in {"navClick", "logo", "scroll", "menu", "showMore"} =>
          (activeSection' = activeSection /\ darkMode' = darkMode)
     /\ activeSection' # activeSection => lastOp'.op \in {"callback", "load", "backLink"}
     /\ darkMode' # darkMode => lastOp'.op \in {"theme", "load", "backLink"}]_vars

C11_Witness ==
  /\ page = "Portfolio"
  /\ lastOp.op = "showMore" /\ showMore
  /\ activeSection = "projects"
  /\ ~darkMode

\* the position of each section's control in NAV_LINKS, written out
ExpectedControl ==
  [id \in SectionSet |->
     CASE id = "about" -> 1 [] id = "cp-life" -> 2 [] id = "projects" -> 3
       [] id = "skills" -> 4 [] id = "experience" -> 5 [] id = "resume" -> 6
       [] id = "connect" -> 8]

\* C12: in every list of controls the navbar renders, a control is drawn as
\* active iff its id equals activeSection: exactly one control per list is
\* highlighted, and the external 'blog' control (position 7) never is.
C12_Highlight ==
  page = "Portfolio" =>
    \A list \in RenderedLists(menuOpen) :
      /\ Highlighted(list, activeSection) = {ExpectedControl[activeSection]}
      /\ Cardinality(Highlighted(list, activeSection)) = 1
      /\ 7 \notin Highlighted(list, activeSection)

C12_Witness ==
  /\ page = "Portfolio"
  /\ menuOpen
  /\ activeSection = "connect"
  /\ lastOp.op = "callback"
  /\ Highlighted("mobile", activeSection) = {8}

\* C13: fadeUp(d) returns the hidden state {opacity 0, y 30}, the visible
\* state {opacity 1, y 0}, a once-only viewport trigger and a transition of
\* duration 0.6 s, easing 'easeOut' and delay d; two calls with the same
\* delay return equal objects, and fadeUp() returns what fadeUp(0) returns.
C13_FadeUp ==
  /\ Len(fadeOut) = Len(fadeArgs)
  /\ \A i \in DOMAIN fadeArgs :
       /\ fadeArgs[i].given =>
            fadeOut[i] = [ initial     |-> [opacity |-> 0, y |-> 30],
                           whileInView |-> [opacity |-> 1, y |-> 0],
                           viewport    |-> [once |-> TRUE],
                           transition  |-> [duration |-> 60, delay |-> fadeArgs[i].value,
                                            ease |-> "easeOut"] ]
       /\ ~fadeArgs[i].given => fadeOut[i].transition.delay = 0
       /\ \A j \in DOMAIN fadeArgs :
            (fadeArgs[i].given /\ fadeArgs[j].given /\ fadeArgs[i].value = fadeArgs[j].value)
              => fadeOut[i] = fadeOut[j]
  /\ (Len(fadeArgs) = 2 /\ ~fadeArgs[1].given /\ fadeArgs[2] = [given |-> TRUE, value |-> 0])
       => fadeOut[1] = fadeOut[2]

C13_Witness ==
  /\ Len(fadeArgs) = 2
  /\ fadeBy = <<"utils", "utils">>
  /\ ~fadeArgs[1].given
  /\ fadeArgs[2] = [given |-> TRUE, value |-> 7]
  /\ fadeOut[2].transition.delay = 7
  /\ fadeOut[1].transition.delay = 0

\* C14: after every scroll event the navbar handles, scrolled is true iff the
\* offset is greater than 20: an offset of exactly 20 gives false, 21 true.
C14_Threshold ==
  (page = "Portfolio" /\ lastOp.op = "scroll" /\ scrollListeners > 0) =>
    /\ scrolled <=> scrollY > 20
    /\ scrollY = 20 => ~scrolled
    /\ scrollY = 21 => scrolled

C14_Witness ==
  /\ page = "Portfolio" /\ mounted
  /\ lastOp.op = "scroll"
  /\ scrollY = 20
  /\ ~scrolled

\* C15: whenever an image of the site fails to load, the failure is handled
\* at the element by hiding that element (and nothing else happens).
C15_Original ==
  lastOp.op = "imgError" =>
    effect = [kind |-> "hide", arg |-> lastOp.id, opt |-> "display:none"]

\* C16: after every load of the main layout activeSection is 'about' and
\* darkMode is true (the root carrying 'dark'), whatever both were before the
\* load, and no step ever leaves anything in the browser's storage.
C16_SessionOnly ==
  /\ storage = {}
  /\ (page = "Portfolio" /\ lastOp.op \in {"load", "backLink"}) =>
       /\ activeSection = "about"
       /\ darkMode = TRUE
       /\ rootDark

C16_Witness ==
  /\ page = "Portfolio"
  /\ lastOp.op = "load" /\ lastOp.id = "connect" /\ lastOp.hit
  /\ activeSection = "about"
  /\ darkMode

\* C17: every outbound link of Connect (each social profile link, the
\* pre-filled email-compose links, the direct-email button included) opens
\* its target in a new browsing context.
C17_Original ==
  lastOp.op = "link" =>
    (effect.kind = "navigate" /\ effect.opt = "_blank")

\* the operations that happen on a content section
ContentOps == {"showMore", "link", "imgError"}

\* the state of the application outside of Projects
appVars == <<path, page, activeSection, darkMode, rootDark, scrolled, menuOpen,
             lightbox, overlays, storage>>

\* C18 as stated: the content sections hold no mutable state, and no action
\* on a content section changes any state of the application.
C18_Original ==
  [][lastOp'.op \in ContentOps => (appVars' = appVars /\ showMore' = showMore)]_vars

\* C18 amended: the content sections other than Projects hold no state;
\* Projects holds the boolean showMore, which each activation of its Show
\* More control flips and nothing else but a page load changes; no action on
\* a content section changes any other state of the application.
C18_Sections ==
  [][/\ lastOp'.op \in ContentOps => appVars' = appVars
     /\ lastOp'.op = "showMore" => showMore' = ~showMore
     /\ showMore' # showMore => lastOp'.op \in {"showMore", "load", "backLink"}]_vars

C18_Witness ==
  /\ page = "Portfolio"
  /\ lastOp.op = "showMore" /\ ~showMore
  /\ menuOpen /\ scrolled /\ ~darkMode
  /\ activeSection = "resume"

\* C19: when the callbacks of several observers run one after the other,
\* each reporting its section as intersecting, activeSection is after each
\* of them the section of the callback that ran last, whatever the order of
\* the sections on the page.
C19_LastWins ==
  [][(/\ lastOp.op = "callback" /\ lastOp.hit
      /\ lastOp'.op = "callback" /\ lastOp'.hit
      /\ page' = "Portfolio")
       => activeSection' = lastOp'.id]_vars

C19_Witness ==
  /\ page = "Portfolio"
  /\ lastOp.op = "callback" /\ lastOp.hit /\ lastOp.list = "after"
  /\ lastOp.id = "about"
  /\ activeSection = "about"

\* C20: a callback whose entry reports not intersecting leaves activeSection
\* as it was; when the active section itself leaves the viewport, the state
\* keeps its identifier and does not become empty.
C20_NotIntersecting ==
  [][(lastOp'.op = "callback" /\ ~lastOp'.hit) =>
       (activeSection' = activeSection /\ activeSection' \in SectionSet)]_vars

C20_Witness ==
  /\ page = "Portfolio"
  /\ lastOp.op = "callback" /\ ~lastOp.hit /\ lastOp.n = 1
  /\ lastOp.id = "skills"
  /\ activeSection = "skills"
  /\ lastEntered = "skills"

\* number of connected observers that watch section id
ObserversOf(id) == Cardinality({i \in DOMAIN live : live[i] = id})

\* C21: over every sequence of mounts and cleanups of the layout's effects
\* (StrictMode's mount, cleanup, mount included), after each mount there is
\* exactly one connected observer per registered section that has an element
\* and none for the others, and after each cleanup there is none at all:
\* no observer of an earlier mount is leaked or duplicated.
C21_NoLeak ==
  page = "Portfolio" =>
    /\ mounted =>
         \A id \in SectionSet : ObserversOf(id) = IF id \in rendered THEN 1 ELSE 0
    /\ ~mounted => \A id \in SectionSet : ObserversOf(id) = 0
    /\ lastOp.op = "mount" => Len(live) = Cardinality(rendered)
    /\ lastOp.op = "cleanup" => Len(live) = 0

C21_Witness ==
  /\ page = "Portfolio" /\ mounted
  /\ lastOp.op = "mount"
  /\ rendered = SectionSet
  /\ live = SECTIONS
  /\ activeSection = "projects"

\* C22: when a callback delivers a batch of several entries, the first entry
\* alone decides: activeSection becomes the section of the callback if the
\* first entry is intersecting and stays as it was otherwise, whatever the
\* later entries of the batch report.
C22_FirstEntry ==
  [][(lastOp'.op = "callback" /\ lastOp'.n > 1 /\ page' = "Portfolio") =>
       /\ lastOp'.hit => activeSection' = lastOp'.id
       /\ ~lastOp'.hit => activeSection' = activeSection]_vars

C22_Witness ==
  /\ page = "Portfolio"
  /\ lastOp.op = "callback" /\ lastOp.n = 2
  /\ ~lastOp.hit /\ lastOp.rest = <<TRUE>>
  /\ lastOp.id = "resume"
  /\ activeSection = "cp-life"

\* C23: a click on the enlarged image leaves the selection (and the overlay)
\* as it is; a click on the backdrop or on the close control clears it, the
\* close control invoking the dismissal exactly once; nothing else but a
\* page load ends a selection.
C23_Dismissal ==
  [][/\ lastOp'.op = "image" =>
          (lightbox' = lightbox /\ overlays' = overlays /\ lastOp'.n = 0)
     /\ lastOp'.op = "close" => (lightbox' = NoSelection /\ lastOp'.n = 1)
     /\ lastOp'.op = "backdrop" => (lightbox' = NoSelection /\ lastOp'.n = 1)
     /\ (lightbox # NoSelection /\ lightbox' = NoSelection) =>
          lastOp'.op \in {"backdrop", "close", "load", "backLink"}]_vars

C23_Witness ==
  /\ page = "Blog"
  /\ lastOp.op = "image"
  /\ lightbox.alt = "Hiking photo 2"
  /\ Len(overlays) = 1

\* C24: activating the external 'blog' control leaves menuOpen as it was (in
\* the drawer: open); the hamburger flips menuOpen, a control that is not
\* external and the logo set it to false, and scroll events, theme toggles
\* and observer callbacks never change it.
C24_MenuFrame ==
  [][/\ (lastOp'.op = "navClick" /\ lastOp'.hit) => menuOpen' = menuOpen
     /\ (lastOp'.op = "navClick" /\ lastOp'.hit /\ lastOp'.list = "mobile") => menuOpen'
     /\ lastOp'.op = "menu" => menuOpen' = ~menuOpen
     /\ (lastOp'.op = "navClick" /\ ~lastOp'.hit) => menuOpen' = FALSE
     /\ lastOp'.op = "logo" => menuOpen' = FALSE
     /\ lastOp'.op \in {"scroll", "theme", "callback"} => menuOpen' = menuOpen
     /\ menuOpen' # menuOpen =>
          lastOp'.op \in {"menu", "navClick", "logo", "load", "backLink"}]_vars

C24_Witness ==
  /\ page = "Portfolio"
  /\ lastOp.op = "navClick" /\ lastOp.id = "blog" /\ lastOp.list = "mobile"
  /\ menuOpen
  /\ scrolled /\ ~darkMode

\* C25: scrolled is false after the mount of a load whatever the offset of
\* the document is, only a scroll event recomputes it (so it stays false up
\* to the first one), and each scroll event the navbar receives sets it to
\* offset > 20.
C25_ScrolledAtMount ==
  /\ [](page = "Portfolio" /\ lastOp.op \in {"load", "backLink"} => ~scrolled)
  /\ [][/\ scrolled' # scrolled => lastOp'.op \in {"scroll", "load", "backLink"}
        /\ (lastOp'.op = "scroll" /\ scrollListeners > 0) => (scrolled' <=> scrollY' > 20)]_vars

C25_Witness ==
  /\ page = "Portfolio" /\ mounted
  /\ lastOp.op = "load" /\ lastOp.hit /\ lastOp.id = "skills"
  /\ scrollY = 21
  /\ ~scrolled

\* C26: while the layout is mounted exactly one scroll listener is registered,
\* after the cleanup none is, however often mount and cleanup repeat; and a
\* scroll event after the cleanup leaves scrolled as it was.
C26_OneListener ==
  /\ [](scrollListeners <= 1)
  /\ [](page = "Portfolio" => (scrollListeners = IF mounted THEN 1 ELSE 0))
  /\ [][(~mounted /\ lastOp'.op = "scroll") => scrolled' = scrolled]_vars

C26_Witness ==
  /\ page = "Portfolio" /\ ~mounted
  /\ scrollListeners = 0
  /\ lastOp.op = "scroll"
  /\ scrollY = 21
  /\ ~scrolled

InternalIds ==
  LET internal == SelectSeq(NAV_LINKS, LAMBDA l : l.external = "")
  IN  [i \in DOMAIN internal |-> internal[i].id]

\* C28: the identifiers of the navigation links that are not external are
\* the identifiers of SECTIONS, in the same order: every internal control
\* that is activated targets a tracked section, and whichever section is
\* active has a control of its own to highlight.
C28_Consistent ==
  /\ InternalIds = SECTIONS
  /\ (lastOp.op = "navClick" /\ ~lastOp.hit) => lastOp.id \in SectionSet
  /\ page = "Portfolio" =>
       \E k \in DOMAIN NAV_LINKS :
         NAV_LINKS[k].external = "" /\ NAV_LINKS[k].id = activeSection

C28_Witness ==
  /\ page = "Portfolio"
  /\ lastOp.op = "navClick" /\ ~lastOp.hit
  /\ lastOp.n = 8 /\ lastOp.id = SECTIONS[7]
  /\ activeSection = "cp-life"

\* what the route switch renders in the browsing context the last handler opened
OpenedPage == RouteSwitch(ResolveUrl(effect.arg, path))

\* C29: the target the 'blog' control opens resolves to the path '/blog',
\* which the route switch maps to the gallery page: the opened document
\* shows the gallery, not the main layout and not an unmatched route.
C29_BlogTarget ==
  (lastOp.op = "navClick" /\ lastOp.hit) =>
    /\ effect.kind = "open"
    /\ ResolveUrl(effect.arg, path) = <<"blog">>
    /\ OpenedPage = "Blog"

C29_Witness ==
  /\ page = "Portfolio" /\ path = <<"">>
  /\ lastOp.op = "navClick" /\ lastOp.id = "blog" /\ lastOp.list = "desktop"
  /\ effect.arg = "/blog"
  /\ OpenedPage = "Blog"

\* the delay a call asks for: its argument, or 0 when the argument is omitted
AskedDelay(arg) == IF arg.given THEN arg.value ELSE 0

\* C30: About's local fadeUp and the fadeUp of utils/animations return equal
\* configurations for every delay, the omitted argument included: a call of
\* the one and a call of the other that ask for the same delay give equal
\* objects.
C30_SameFadeUp ==
  \A i, j \in DOMAIN fadeArgs :
    (fadeBy[i] = "about" /\ fadeBy[j] = "utils"
       /\ AskedDelay(fadeArgs[i]) = AskedDelay(fadeArgs[j]))
      => fadeOut[i] = fadeOut[j]

C30_Witness ==
  /\ fadeBy = <<"utils", "about">>
  /\ fadeArgs[1] = [given |-> TRUE, value |-> 0]
  /\ ~fadeArgs[2].given
  /\ fadeOut[1] = fadeOut[2]

====
